---------------------------- MODULE Spec2Model ----------------------------
(***************************************************************************)
(* One-time external-access token protocol of the task application.        *)
(*                                                                         *)
(*   addChatMessage     src/src/app/actions.ts   (Token Issuer)            *)
(*   getPublicTaskData  src/unnamed/part_001     (Token Validator/Consumer)*)
(*   addPublicReply     src/src/app/actions.ts   (Reply Acceptor)          *)
(*                                                                         *)
(* The state of the data store is the two tables the protocol writes:      *)
(* messages and task_access_tokens.  The table tasks belongs to the task   *)
(* pages (addTask, deleteTask, ...): the protocol only fetches a task row  *)
(* by id, and whether the fetch returns the row (the task may have been    *)
(* deleted, the call may fail) is an input of the step that fetches.       *)
(* Every handler is an async function: requests of different callers       *)
(* interleave between its store calls.  A store call may report an error;  *)
(* that outcome is an input of the step.                                   *)
(*                                                                         *)
(* Text (message content, e-mail addresses) is a sequence of one-character *)
(* strings.  The created_at column, which the store fills in and no        *)
(* handler decides on, is left out of the message rows.  Timestamps are    *)
(* integers in milliseconds, as Date.now() gives them; toISOString() and   *)
(* new Date(iso) keep millisecond precision, so a stored timestamp         *)
(* compares as the integer it was made from.                               *)
(***************************************************************************)
EXTENDS Integers, Sequences, FiniteSets, TLC

(***************************************************************************)
(* Bounds of the model.                                                    *)
(***************************************************************************)
MaxTokens   == 1   \* token rows the store may hold
MaxMessages == 3   \* message rows the store may hold
MaxSkew     == 1   \* instants modelled after the expiry of a token issued at time 0
NReaders    == 2   \* read requests that may be in flight together

(***************************************************************************)
(* Values.                                                                 *)
(***************************************************************************)
NullTime == -1                 \* SQL NULL of a timestamp column
NullText == <<"<null>">>       \* SQL NULL / JS null of a text value
NoUser   == "null"             \* user_id = null
NoRow    == 0                  \* no row: ids are serial, starting at 1

TaskIds   == {1, 2}
Users     == {"u1"}
\* The values uuidv4() returns, in the order it returns them: never one twice.
UuidPool  == <<"t1", "t2", "t3", "t4", "t5">>
\* The token strings a caller may present: the issued ones and one never issued.
TokenStrs == {UuidPool[i] : i \in 1..(MaxTokens + 1)}

\* actions.ts:146  const expiryDurationMs = 7 * 24 * 60 * 60 * 1000
expiryDurationMs == 7 * 24 * 60 * 60 * 1000

\* The instants the clock may show: time 0, and for a token issued then the
\* instant of its expires_at and the instants after it.
Instants == {0} \cup (expiryDurationMs .. expiryDurationMs + MaxSkew)

(***************************************************************************)
(* Text: String.prototype.trim and the e-mail prefix pattern.              *)
(***************************************************************************)
WhiteSpace == {" ", "\t", "\n"}
Letters    == {"a", "b", "c", "e", "h", "i", "k", "m", "o", "x", "A", "Z"}
Digits     == {"0", "7"}
LocalChars  == Letters \cup Digits \cup {".", "_", "%", "+", "-"}
DomainChars == Letters \cup Digits \cup {".", "-"}

RECURSIVE TrimStart(_)
TrimStart(s) ==
    IF s = <<>> THEN <<>>
    ELSE IF Head(s) \in WhiteSpace THEN TrimStart(Tail(s)) ELSE s

RECURSIVE TrimEnd(_)
TrimEnd(s) ==
    IF s = <<>> THEN <<>>
    ELSE IF s[Len(s)] \in WhiteSpace THEN TrimEnd(SubSeq(s, 1, Len(s) - 1)) ELSE s

\* String.prototype.trim
Trim(s) == TrimEnd(TrimStart(s))


\* Index of the first element of s that is in S, 0 when there is none.
FirstIndex(s, S) ==
    IF \E i \in 1..Len(s) : s[i] \in S
    THEN CHOOSE i \in 1..Len(s) : s[i] \in S /\ \A j \in 1..(i - 1) : s[j] \notin S
    ELSE 0

\* Index of the last element of s that is in S, 0 when there is none.
LastIndex(s, S) ==
    IF \E i \in 1..Len(s) : s[i] \in S
    THEN CHOOSE i \in 1..Len(s) : s[i] \in S /\ \A j \in (i + 1)..Len(s) : s[j] \notin S
    ELSE 0

AllIn(s, S) == \A i \in 1..Len(s) : s[i] \in S

AtSign == {"@"}
Dot    == {"."}

\* Variant: the pattern does not ask for the dot and the letters after the domain.
IsEmailAddress_noTld(seg) ==
    LET at == FirstIndex(seg, AtSign)
    IN  /\ at >= 2
        /\ AllIn(SubSeq(seg, 1, at - 1), LocalChars)
        /\ Len(seg) > at
        /\ AllIn(SubSeq(seg, at + 1, Len(seg)), DomainChars)

\* [a-zA-Z0-9._%+-]+@[a-zA-Z0-9.-]+\.[a-zA-Z]{2,}   matched against the whole of seg
IsEmailAddress(seg) ==
    LET at   == FirstIndex(seg, AtSign)
        rest == SubSeq(seg, at + 1, Len(seg))
        dot  == LastIndex(rest, Dot)
    IN  /\ at >= 2
        /\ AllIn(SubSeq(seg, 1, at - 1), LocalChars)
        /\ dot >= 2
        /\ AllIn(SubSeq(rest, 1, dot - 1), DomainChars)
        /\ Len(rest) - dot >= 2
        /\ AllIn(SubSeq(rest, dot + 1, Len(rest)), Letters)

\* Length of the match of emailPrefixRegex at the start of s, 0 when it does not
\* match: the address runs to the first white space (no class of the pattern holds
\* white space) and \s+ takes the whole run of white space after it.
emailPrefixRegex(s) ==
    LET ws    == FirstIndex(s, WhiteSpace)
        after == SubSeq(s, ws, Len(s))
        run   == Len(after) - Len(TrimStart(after))
    IN  IF ws >= 2 /\ IsEmailAddress(SubSeq(s, 1, ws - 1)) THEN ws - 1 + run ELSE 0

(***************************************************************************)
(* Inputs.                                                                 *)
(***************************************************************************)
\* The chat text posted while the protocol runs: it shares a message.
ShareTexts ==
    { <<" ", "a", "@", "b", ".", "c", "o", " ", "\t", "h", "i", "\n">> }

ChatTexts ==
    { <<"a", "@", "b", ".", "c", "o", " ", "h", "i">>,
      <<" ", "x", "@", "m", ".", "i", "o", " ", "\t", "o", "k", "\n">>,
      <<"a", "@", "b", ".", "c", "o", " ", " ">>,
      <<"a", "@", "b", " ", "h", "i">>,
      <<"h", "i">>,
      <<" ", " ", " ">>,
      <<>> }

ReplyTexts ==
    { <<" ", "o", " ", "k", "\n">>, <<" ", "\t">> }

(***************************************************************************)
(* State.                                                                  *)
(***************************************************************************)
VARIABLES
    now,        \* the server clock, Date.now()
    messages,   \* table messages: row i has id i
    tokens,     \* table task_access_tokens: row i has id i
    rd,         \* the read requests (getPublicTaskData) in flight, one per reader
    ch,         \* the chat request (addChatMessage) in flight
    ret,        \* the request that returned last, and what it returned
    outbox,     \* the calls of sendTaskShareEmail
    via,        \* history: via[i] is the token row message i was posted through
    readLog     \* history: per token row, what its finished reads did

vars == <<now, messages, tokens, rd, ch, ret, outbox, via, readLog>>

Readers  == 1..NReaders
TokenIds == 1..MaxTokens

\* The result of .single() when no row matches: data is null.
NoTokenData ==
    [id |-> NoRow, task_id |-> NoRow, message_id |-> NoRow,
     target_email |-> NullText, expires_at |-> NullTime, used_at |-> NullTime]

\* .from('task_access_tokens').select(...).eq('token', token).single()
FindToken(tok) ==
    LET hits == {i \in 1..Len(tokens) : tokens[i].token = tok}
    IN  IF Cardinality(hits) = 1
        THEN LET r == tokens[CHOOSE i \in hits : TRUE]
             IN  [id |-> r.id, task_id |-> r.task_id, message_id |-> r.message_id,
                  target_email |-> r.target_email, expires_at |-> r.expires_at,
                  used_at |-> r.used_at]
        ELSE NoTokenData

\* Variant: the row already counts as expired at the instant expires_at.
IsExpired_atOrAfter(expires_at, t) == expires_at <= t

\* new Date(tokenData.expires_at) < new Date()
IsExpired(expires_at, t) == expires_at < t

\* Variant: a row is never taken as used.
IsUsed_never(used_at) == FALSE

\* if (tokenData.used_at)
IsUsed(used_at) == used_at # NullTime

(***************************************************************************)
(* What the handlers return.                                               *)
(***************************************************************************)
Pending        == "pending"     \* the request has not returned yet
NotFound       == "null"        \* getPublicTaskData returns null: notFound()
Data           == "data"        \* getPublicTaskData returns { task, message, tokenData }
Redirected     == "redirect:/public/task/reply-success"
Success        == "success"
ErrExpired     == "This link has expired."
ErrUsed        == "This link has already been used to view the message."
ErrAccess      == "An error occurred while accessing this link. Please try again later."
ErrNoTask      == "The associated task could not be found."
ErrNoMessage   == "The specific message could not be found."
ErrReplyEmpty  == "Reply cannot be empty."
ErrReplyLink   == "Failed to send reply. Invalid link."
ErrReplyExpired == "Failed to send reply. Link has expired."
ErrReplySave   == "Failed to save reply. Please try again later."
ErrAuth        == "Authentication required"
ErrChatEmpty   == "Message content cannot be empty."
ErrDatabase    == "Database error"

(***************************************************************************)
(* getPublicTaskData(token): the read path, in two steps.  RdLookup is the *)
(* lookup of the token row; a request that finds no row returns there.     *)
(* RdConsume is the rest: the checks on the row fetched earlier, the       *)
(* update of used_at and the fetches of the task and of the message.       *)
(* Between the two steps other requests run.                               *)
(*                                                                         *)
(* rd[p] is the request of reader p that is in flight: its argument, its   *)
(* local tokenData and, as history, solo: no other read of the same token  *)
(* row has been in flight together with it.  When a request returns, ret   *)
(* holds what it returned (res, task, message) and, as history, the clock  *)
(* when its checks ran (at) and whether its own update of used_at reported *)
(* success (marked), and the history of the token row before this request  *)
(* (before).                                                               *)
(***************************************************************************)
IdleRead ==
    [pc |-> "idle", token |-> "none", tokenData |-> NoTokenData, solo |-> TRUE]

\* The history of the reads of one token row.  views counts the reads that returned
\* the data.  A read is clean when it overlapped no other read of the row, no store
\* call of it reported an error, the bound task and message were there, and the
\* clock was before expires_at; dirty: some finished read of the row was not clean.
\* refused: some finished read or reply with the row was refused for expiry.
NoReads == [views |-> 0, dirty |-> FALSE, refused |-> FALSE]

Logged(log, r, clean) ==
    [views |-> IF r = Data THEN log.views + 1 ELSE log.views,
     dirty |-> log.dirty \/ ~clean,
     refused |-> log.refused \/ r = ErrExpired]

\* No response is waiting to be taken.  ret only records what a request returned,
\* and the caller takes each response before the next step of any request.
NoReturn == [op |-> "none", res |-> Pending]
Taken    == ret = NoReturn

NoRead ==
    [op |-> "read", token |-> "none", tokenData |-> NoTokenData, res |-> Pending,
     task |-> NoRow, message |-> NoRow, at |-> NullTime, marked |-> FALSE,
     gotTask |-> NoRow, gotMessage |-> NoRow, clean |-> FALSE, before |-> NoReads]

InFlight(q) == rd[q].pc = "fetched"

\* part_001:242-251  the lookup of the token row; ok: the store call reported no
\* error.  Without a row the request returns null.
RdLookup(p, tok, ok) ==
    LET td    == IF ok THEN FindToken(tok) ELSE NoTokenData
        row   == FindToken(tok).id
        peers == {q \in Readers \ {p} : InFlight(q) /\ rd[q].tokenData.id = row}
    IN  /\ Taken
        /\ rd[p].pc = "idle"
        /\ \A q \in 1..(p - 1) : InFlight(q)   \* readers are alike: the first free one
        /\ IF td.id = NoRow
           THEN /\ ret' = [NoRead EXCEPT !.token = tok, !.res = NotFound]
                /\ readLog' = IF row = NoRow THEN readLog
                              ELSE [readLog EXCEPT ![row] = Logged(@, NotFound, FALSE)]
                /\ UNCHANGED rd
           ELSE /\ rd' = [q \in Readers |->
                            IF q = p
                            THEN [pc |-> "fetched", token |-> tok, tokenData |-> td,
                                  solo |-> peers = {}]
                            ELSE IF q \in peers THEN [rd[q] EXCEPT !.solo = FALSE]
                            ELSE rd[q]]
                /\ UNCHANGED <<ret, readLog>>
        /\ UNCHANGED <<now, messages, tokens, ch, outbox, via>>

\* Variant: the used check is made before the expiry check.
ReadCheck_usedFirst(td, t) ==
    IF IsUsed(td.used_at) THEN ErrUsed
    ELSE IF IsExpired(td.expires_at, t) THEN ErrExpired
    ELSE Pending

\* part_001:253-255  the checks on the fetched row, in the order of the code: the
\* error to return, or Pending to go on
ReadCheck(td, t) ==
    IF IsExpired(td.expires_at, t) THEN ErrExpired
    ELSE IF IsUsed(td.used_at) THEN ErrUsed
    ELSE Pending

\* part_001:269-305  after the update: the fetch of the bound task, then of the
\* bound message; gotTask, gotMessage: the rows the two fetches returned, or NoRow
ReadFetch(gotTask, gotMessage) ==
    IF gotTask = NoRow THEN ErrNoTask
    ELSE IF gotMessage = NoRow THEN ErrNoMessage
    ELSE Data

\* Variant: the error of the update is ignored.
ReadResult_failOpen(check, updOk, gotTask, gotMessage) ==
    IF check # Pending THEN check
    ELSE ReadFetch(gotTask, gotMessage)

\* part_001:253-305  what the request returns: the failed check, the error of a
\* failed update, or what the fetches give
ReadResult(check, updOk, gotTask, gotMessage) ==
    IF check # Pending THEN check
    ELSE IF ~updOk THEN ErrAccess
    ELSE ReadFetch(gotTask, gotMessage)

\* Variant: the update of used_at is sent whatever the checks gave.
UpdateSent_always(check) == TRUE

\* part_001:253-259  the update of used_at is sent when no check failed
UpdateSent(check) == check = Pending

\* Variant: the update switches the mark: it clears a used_at that is set.
MarkUsed_toggle(row, t) ==
    [row EXCEPT !.used_at = IF @ = NullTime THEN t ELSE NullTime]

\* Variant: the update also renews the expiry of the row.
MarkUsed_renew(row, t) ==
    [row EXCEPT !.used_at = t, !.expires_at = t + expiryDurationMs]

\* Variant: the update matches no row and leaves the mark as it is.
MarkUsed_noRow(row, t) == row

\* part_001:259-262  .update({ used_at: new Date().toISOString() }).eq('id', ...)
MarkUsed(row, t) == [row EXCEPT !.used_at = t]

\* part_001:253-305  updOk: the update reported no error; taskOk, msgOk: the fetch
\* of the task, of the message, reported no error and returned the row
RdConsume(p, updOk, taskOk, msgOk) ==
    LET td      == rd[p].tokenData
        check   == ReadCheck(td, now)
        hasMsg  == td.message_id \in 1..Len(messages)
        gotTask == IF taskOk THEN td.task_id ELSE NoRow
        gotMsg  == IF msgOk /\ hasMsg THEN messages[td.message_id].id ELSE NoRow
        r       == ReadResult(check, updOk, gotTask, gotMsg)
        tried   == UpdateSent(check)        \* the update was sent
        marked  == tried /\ updOk           \* and reported success
        clean   == /\ rd[p].solo /\ now < td.expires_at
                   /\ updOk /\ taskOk /\ msgOk /\ hasMsg
    IN  /\ Taken
        /\ rd[p].pc = "fetched"
        /\ ~tried => (updOk /\ taskOk /\ msgOk)         \* no call, no outcome
        /\ ~updOk => (taskOk /\ msgOk)
        /\ ~taskOk => msgOk
        /\ tokens' = IF marked THEN [tokens EXCEPT ![td.id] = MarkUsed(@, now)] ELSE tokens
        /\ ret' = [op |-> "read", token |-> rd[p].token, tokenData |-> td, res |-> r,
                   task |-> IF r = Data THEN gotTask ELSE NoRow,
                   message |-> IF r = Data THEN gotMsg ELSE NoRow,
                   at |-> now, marked |-> marked,
                   gotTask |-> IF marked THEN gotTask ELSE NoRow,
                   gotMessage |-> IF marked /\ gotTask # NoRow THEN gotMsg ELSE NoRow,
                   clean |-> clean, before |-> readLog[td.id]]
        /\ readLog' = [readLog EXCEPT ![td.id] = Logged(@, r, clean)]
        /\ rd' = [rd EXCEPT ![p] = IdleRead]
        /\ UNCHANGED <<now, messages, ch, outbox, via>>

(***************************************************************************)
(* addPublicReply(token, replyContent): the reply path.                    *)
(* The lookup reads only columns no handler changes after the insert of    *)
(* the row (used_at is fetched and never looked at), so the lookup, the    *)
(* checks and the insert are one step.  History fields: at, the clock when *)
(* the expiry check ran; saved, the store took the insert or would have;   *)
(* prior, the external messages the thread of the token's task held before *)
(* the request, and had, all the messages the store held before it;        *)
(* before, the history of the token row before the request.                *)
(***************************************************************************)
IdleReply ==
    [op |-> "reply", token |-> "none", text |-> <<>>, replyContent |-> <<>>,
     tokenData |-> NoTokenData, res |-> Pending, at |-> NullTime,
     saved |-> TRUE, prior |-> 0, had |-> 0, before |-> NoReads]

\* The external messages in the thread of a task.
ExternalIn(taskId) ==
    {i \in 1..Len(messages) : messages[i].is_external /\ messages[i].task_id = taskId}

\* Variant: the row does not carry the address of the token.
ReplyRow_noSender(td, content) ==
    [id |-> Len(messages) + 1, task_id |-> td.task_id, user_id |-> NoUser,
     sender_email |-> NullText, content |-> content, is_external |-> TRUE]

\* Variant: the row takes the id of the token row as the id of the task.
ReplyRow_tokenId(td, content) ==
    [id |-> Len(messages) + 1, task_id |-> td.id, user_id |-> NoUser,
     sender_email |-> td.target_email, content |-> content, is_external |-> TRUE]

\* The row addPublicReply inserts (actions.ts:253-259).
ReplyRow(td, content) ==
    [id |-> Len(messages) + 1, task_id |-> td.task_id, user_id |-> NoUser,
     sender_email |-> td.target_email, content |-> content, is_external |-> TRUE]

\* Variant: a token that was read is refused.
ReplyCheck_unusedOnly(td, t) ==
    IF td.id = NoRow THEN ErrReplyLink
    ELSE IF IsExpired(td.expires_at, t) THEN ErrReplyExpired
    ELSE IF IsUsed(td.used_at) THEN ErrReplyLink
    ELSE Pending

\* Variant: the expiry of the token is not checked.
ReplyCheck_noExpiry(td, t) ==
    IF td.id = NoRow THEN ErrReplyLink
    ELSE Pending

\* Variant: a token that a reply was posted through is refused.
ReplyCheck_oneReply(td, t) ==
    IF td.id = NoRow THEN ErrReplyLink
    ELSE IF IsExpired(td.expires_at, t) THEN ErrReplyExpired
    ELSE IF \E i \in 1..Len(via) : via[i] = td.id THEN ErrReplyLink
    ELSE Pending

\* actions.ts:241-248  the checks on the token row: the error, or Pending to go on
ReplyCheck(td, t) ==
    IF td.id = NoRow THEN ErrReplyLink
    ELSE IF IsExpired(td.expires_at, t) THEN ErrReplyExpired
    ELSE Pending

\* Variant: the error of the insert is ignored.
ReplyResult_ignoreError(check, saved) ==
    IF check # Pending THEN check ELSE Redirected

\* actions.ts:241-272  what the request returns: the failed check, the error of a
\* failed insert, or the redirect
ReplyResult(check, saved) ==
    IF check # Pending THEN check
    ELSE IF saved THEN Redirected
    ELSE ErrReplySave

\* Variant: a reply marks the token row used.
TokensAfterReply_consumed(td) == [tokens EXCEPT ![td.id] = MarkUsed(@, now)]

\* actions.ts:250-272  table task_access_tokens after a reply through row td: the
\* reply path sends no update to it
TokensAfterReply(td) == tokens

\* actions.ts:213-274  found: the lookup reported no error; saved: the insert did not
addPublicReply(tok, text, found, saved) ==
    LET content == Trim(text)
        td      == IF found THEN FindToken(tok) ELSE NoTokenData
        me      == [IdleReply EXCEPT !.token = tok, !.text = text,
                                     !.replyContent = content, !.saved = saved,
                                     !.had = Len(messages)]
        seen    == [me EXCEPT !.tokenData = td,
                              !.prior = Cardinality(ExternalIn(td.task_id)),
                              !.before = IF td.id = NoRow THEN NoReads
                                         ELSE readLog[td.id]]
        check   == ReplyCheck(td, now)
        r       == ReplyResult(check, saved)
    IN  /\ Taken
        /\ IF content = <<>>
           THEN /\ found /\ saved
                /\ ret' = [me EXCEPT !.res = ErrReplyEmpty]
                /\ UNCHANGED <<messages, via, tokens, readLog>>
           ELSE /\ check # Pending => saved                  \* no call, no outcome
                /\ ret' = [seen EXCEPT !.res = r, !.at = now]
                /\ readLog' = IF td.id # NoRow /\ r = ErrReplyExpired
                              THEN [readLog EXCEPT ![td.id].refused = TRUE]
                              ELSE readLog
                /\ IF check = Pending /\ saved
                   THEN /\ Len(messages) < MaxMessages
                        /\ messages' = Append(messages, ReplyRow(td, content))
                        /\ via' = Append(via, td.id)
                        /\ tokens' = TokensAfterReply(td)
                   ELSE UNCHANGED <<messages, via, tokens>>
        /\ UNCHANGED <<now, rd, ch, outbox>>

(***************************************************************************)
(* addChatMessage(taskId, content): the issuing path, in two steps: the    *)
(* insert of the message, then the token, the task name and the mail.      *)
(* History fields: persisted, the token row this call inserted, if any;    *)
(* issue, what the token block met, "none" when it was not entered;        *)
(* msgOk, the insert of the message reported no error, or was not sent.    *)
(***************************************************************************)
NoToken == "null"      \* generatedToken = null

IdleChat ==
    [op |-> "chat", pc |-> "idle", taskId |-> NoRow, user |-> NoUser, content |-> <<>>,
     messageToSend |-> <<>>, targetEmail |-> NullText, generatedToken |-> NoToken,
     res |-> Pending, newMessage |-> NoRow, publicToken |-> NoToken,
     persisted |-> NoRow, issue |-> "none", msgOk |-> TRUE]

\* actions.ts:112-116  the address the text starts with, or null
TargetEmail(content) ==
    LET s == Trim(content)
        n == emailPrefixRegex(s)
    IN  IF n > 0 THEN Trim(SubSeq(s, 1, n)) ELSE NullText

\* Variant: the prefix is matched and left in the text.
MessageToSend_whole(content) == Trim(content)

\* Variant: the text is not trimmed, neither before nor after the split.
MessageToSend_raw(content) ==
    LET n == emailPrefixRegex(content)
    IN  IF n > 0 THEN SubSeq(content, n + 1, Len(content)) ELSE content

\* actions.ts:106-116  the text that is stored
MessageToSend(content) ==
    LET s == Trim(content)
        n == emailPrefixRegex(s)
    IN  IF n > 0 THEN Trim(SubSeq(s, n + 1, Len(s))) ELSE s

\* Variant: the message row does not carry the address.
ChatRow_noSender(taskId, user, email, content) ==
    [id |-> Len(messages) + 1, task_id |-> taskId, user_id |-> user,
     sender_email |-> NullText, content |-> content, is_external |-> FALSE]

\* The row addChatMessage inserts into messages (actions.ts:125-131).
ChatRow(taskId, user, email, content) ==
    [id |-> Len(messages) + 1, task_id |-> taskId, user_id |-> user,
     sender_email |-> email, content |-> content, is_external |-> FALSE]

\* The row addChatMessage inserts into task_access_tokens (actions.ts:152-159).
TokenRow(c, u) ==
    [id |-> Len(tokens) + 1, token |-> u, task_id |-> c.taskId,
     message_id |-> c.newMessage, target_email |-> c.targetEmail,
     created_by_user_id |-> c.user, expires_at |-> now + expiryDurationMs,
     used_at |-> NullTime]

\* actions.ts:201-209  the value returned after the message was inserted
ChatSuccess(c) == [c EXCEPT !.pc = "done", !.res = Success, !.publicToken = c.generatedToken]

\* The call returns c: nothing of it is in flight any more.
ChatReturns(c) == ret' = c /\ ch' = IdleChat

\* Variant: the caller is not checked.
ChatCheck_noAuth(user, text) ==
    IF text = <<>> THEN ErrChatEmpty ELSE Pending

\* actions.ts:100-120  the checks before the insert of the message: the error, or
\* Pending to go on
ChatCheck(user, text) ==
    IF user = NoUser THEN ErrAuth
    ELSE IF text = <<>> THEN ErrChatEmpty
    ELSE Pending

\* actions.ts:100-143  authentication, the prefix split, the insert of the message
ChStart(taskId, content, user, ok) ==
    LET email == TargetEmail(content)
        text  == MessageToSend(content)
        me    == [IdleChat EXCEPT !.taskId = taskId, !.user = user, !.content = content,
                                  !.messageToSend = text, !.targetEmail = email,
                                  !.msgOk = ok]
        row   == ChatRow(taskId, user, email, text)
        check == ChatCheck(user, text)
    IN  /\ Taken
        /\ ch.pc = "idle"
        /\ email # NullText => Len(tokens) < MaxTokens
        /\ IF check = ErrAuth
           THEN /\ ok
                /\ ChatReturns([IdleChat EXCEPT !.pc = "done", !.res = ErrAuth,
                                                !.taskId = taskId, !.content = content])
                /\ UNCHANGED <<messages, via>>
           ELSE IF check # Pending
           THEN /\ ok
                /\ ChatReturns([me EXCEPT !.pc = "done", !.res = check])
                /\ UNCHANGED <<messages, via>>
           ELSE IF ~ok
           THEN /\ ChatReturns([me EXCEPT !.pc = "done", !.res = ErrDatabase])
                /\ UNCHANGED <<messages, via>>
           ELSE /\ Len(messages) < MaxMessages
                /\ messages' = Append(messages, row)
                /\ via' = Append(via, NoRow)
                /\ IF email = NullText
                   THEN ChatReturns(ChatSuccess([me EXCEPT !.newMessage = row.id]))
                   ELSE /\ ch' = [me EXCEPT !.pc = "msgInserted", !.newMessage = row.id]
                        /\ UNCHANGED ret
        /\ UNCHANGED <<now, tokens, rd, outbox, readLog>>

\* What the rest of addChatMessage may meet:
\*   "tokenError"  the insert of the token row reports an error   (actions.ts:161-165)
\*   "taskError"   the token is stored, the task name is not found (actions.ts:178-180)
\*   "throw"       the token is stored, a later call throws       (actions.ts:193-198)
\*   "sent"        the token is stored, the transport takes the mail
\*   "sendFailed"  the token is stored, the transport fails       (email.ts:104-106)
IssueOutcomes == {"tokenError", "taskError", "throw", "sent", "sendFailed"}

\* Variant: the token row is taken back when the transport fails.
TokenKept_delivered(outcome) == outcome \notin {"tokenError", "sendFailed"}

\* actions.ts:150-165  the insert stored the token row
TokenKept(outcome) == outcome # "tokenError"

\* Variant: generatedToken is not reset when the insert of the token row fails.
TokenReturned_unlessThrown(outcome) == outcome # "throw"

\* Variant: generatedToken is returned only when the mail went out.
TokenReturned_onlySent(outcome) == outcome = "sent"

\* actions.ts:161-165, 193-198  generatedToken is still set at the return
TokenReturned(outcome) == outcome \notin {"tokenError", "throw"}

\* actions.ts:178-190  sendTaskShareEmail is called
Notified(outcome) == outcome \in {"sent", "sendFailed"}

\* actions.ts:168-169  process.env.NEXT_PUBLIC_BASE_URL || 'http://localhost:3000'
baseUrl == "http://localhost:3000"

\* actions.ts:169  `${baseUrl}/public/task/${generatedToken}`, as its three parts
PublicLink(u) == <<baseUrl, "/public/task/", u>>

\* actions.ts:143-209  uuidv4(), the expiry, the insert of the token row, the link,
\* the task name, sendTaskShareEmail, and the return
ChIssue(outcome) ==
    LET u      == UuidPool[Len(tokens) + 1]
        me     == [ch EXCEPT !.issue = outcome,
                             !.persisted = IF TokenKept(outcome)
                                           THEN Len(tokens) + 1 ELSE NoRow,
                             !.generatedToken = IF TokenReturned(outcome)
                                                THEN u ELSE NoToken]
    IN  /\ Taken
        /\ ch.pc = "msgInserted"
        /\ Len(tokens) < MaxTokens
        /\ outcome \in IssueOutcomes
        /\ tokens' = IF TokenKept(outcome) THEN Append(tokens, TokenRow(ch, u))
                     ELSE tokens
        /\ outbox' = IF Notified(outcome)
                     THEN Append(outbox, [to |-> ch.targetEmail, token |-> u,
                                          publicLink |-> PublicLink(u),
                                          delivered |-> outcome = "sent"])
                     ELSE outbox
        /\ ChatReturns(ChatSuccess(me))
        /\ UNCHANGED <<now, messages, rd, via, readLog>>

(***************************************************************************)
(* The clock.                                                              *)
(***************************************************************************)
\* Variant: the clock may be set back.
Tick_back(t) ==
    /\ Taken
    /\ t \in Instants
    /\ t # now
    /\ now' = t
    /\ UNCHANGED <<messages, tokens, rd, ch, ret, outbox, via, readLog>>

\* Time passes: Date.now() never goes back.
Tick(t) ==
    /\ Taken
    /\ t \in Instants
    /\ t > now
    /\ now' = t
    /\ UNCHANGED <<messages, tokens, rd, ch, ret, outbox, via, readLog>>

(***************************************************************************)
(* The system.                                                             *)
(***************************************************************************)
Init ==
    /\ now = 0
    /\ messages = <<>>
    /\ tokens = <<>>
    /\ rd = [p \in Readers |-> IdleRead]
    /\ ch = IdleChat
    /\ ret = NoReturn
    /\ outbox = <<>>
    /\ via = <<>>
    /\ readLog = [i \in TokenIds |-> NoReads]

\* The caller takes the response.
Observe ==
    /\ ~Taken
    /\ ret' = NoReturn
    /\ UNCHANGED <<now, messages, tokens, rd, ch, outbox, via, readLog>>

Next ==
    \/ \E p \in Readers, tok \in TokenStrs, ok \in BOOLEAN : RdLookup(p, tok, ok)
    \/ \E p \in Readers, updOk \in BOOLEAN, taskOk \in BOOLEAN, msgOk \in BOOLEAN :
          RdConsume(p, updOk, taskOk, msgOk)
    \/ \E tok \in TokenStrs, text \in ReplyTexts, found \in BOOLEAN, saved \in BOOLEAN :
          addPublicReply(tok, text, found, saved)
    \/ \E t \in TaskIds, c \in ShareTexts, u \in Users, ok \in BOOLEAN :
          ChStart(t, c, u, ok)
    \/ \E outcome \in IssueOutcomes : ChIssue(outcome)
    \/ \E t \in Instants : Tick(t)
    \/ Observe

Spec == Init /\ [][Next]_vars

\* The issuing path alone, with every chat text and with callers that are not
\* signed in (supabase.auth.getUser() gives no user).
Callers == Users \cup {NoUser}

NextIssue ==
    \/ \E t \in TaskIds, c \in ChatTexts, u \in Callers, ok \in BOOLEAN :
          ChStart(t, c, u, ok)
    \/ \E outcome \in IssueOutcomes : ChIssue(outcome)
    \/ Observe

SpecIssue == Init /\ [][NextIssue]_vars

(***************************************************************************)
(* Properties.  A request that has returned is looked at in the state      *)
(* right after its last step, where ret holds what it returned.            *)
(***************************************************************************)
ReadReturned  == ret.op = "read"
ReplyReturned == ret.op = "reply"

\* The read that returned found the token row.
ReadFound == ReadReturned /\ ret.tokenData.id # NoRow

\* The reply that returned had text left after trim() and found the token row.
ReplyFound == ReplyReturned /\ ret.replyContent # <<>> /\ ret.tokenData.id # NoRow

\* C1: reads of one token issued one after another, before its expiry, with the
\* task and message there and every store call succeeding: the first returns the
\* data, every later one returns "already used", and the data is returned once.
\* (ret.before is the history of the row before the read: no earlier read of it
\* overlapped another, met a store error or a missing row, or ran at or after
\* expires_at.)
C1_SequentialReads ==
    (ReadFound /\ ret.clean /\ ~ret.before.dirty) =>
        /\ ret.res = IF ret.before.views = 0 THEN Data ELSE ErrUsed
        /\ readLog[ret.tokenData.id].views = 1

C1_Witness ==
    /\ ReadFound /\ ret.clean /\ ~ret.before.dirty
    /\ ret.before.views = 1
    /\ ret.res = ErrUsed

\* C2: of the read requests for one token, also when they run concurrently, at
\* most one returns the message data.
C2_AtMostOneView == \A i \in TokenIds : readLog[i].views <= 1

\* C3: a read that finds a token whose expires_at is earlier than the clock returns
\* "This link has expired.", whether used_at is null or set.
C3_ExpiredFirst ==
    (ReadFound /\ ret.tokenData.expires_at < ret.at) => ret.res = ErrExpired

C3_Witness ==
    /\ ReadFound /\ ret.tokenData.expires_at < ret.at
    /\ ret.tokenData.used_at # NullTime
    /\ ret.res = ErrExpired

\* The request that returned checked the expiry of a token row it had found.
CheckedExpiry == ReadFound \/ ReplyFound
ExpiryError   == IF ReadReturned THEN ErrExpired ELSE ErrReplyExpired

\* C4 as claimed: a read or a reply processed at the instant equal to expires_at is
\* refused with the expiry error.
C4_RefusedAtExpiry ==
    (CheckedExpiry /\ ret.at = ret.tokenData.expires_at) => ret.res = ExpiryError

\* C4 amended: a read or a reply is refused with the expiry error when the clock is
\* after expires_at, and is not refused for expiry at the instant equal to it.
C4_RefusedAfterExpiry ==
    CheckedExpiry =>
        /\ ret.at > ret.tokenData.expires_at => ret.res = ExpiryError
        /\ ret.at <= ret.tokenData.expires_at => ret.res # ExpiryError

C4_Witness ==
    /\ ReadFound /\ ret.at = ret.tokenData.expires_at
    /\ ret.res = Data

\* C5: a read returns the data only if its own update of used_at reported success;
\* when the update fails it returns an error and the row stays unused by it.
C5_FailClosed ==
    ReadFound =>
        /\ ret.res = Data => (ret.marked /\ tokens[ret.tokenData.id].used_at # NullTime)
        /\ (ReadCheck(ret.tokenData, ret.at) = Pending /\ ~ret.marked) =>
               (ret.res = ErrAccess /\ ret.task = NoRow /\ ret.message = NoRow)

C5_Witness ==
    /\ ReadFound /\ ~ret.marked
    /\ ret.res = ErrAccess
    /\ tokens[ret.tokenData.id].used_at = NullTime

\* C6: a reply with text, for a token that is found and not expired, whose insert
\* the store takes, succeeds and appends the message, whatever used_at is.
C6_ReplyIgnoresUsedAt ==
    (ReplyFound /\ ret.at <= ret.tokenData.expires_at /\ ret.saved) =>
        /\ ret.res = Redirected
        /\ Len(messages) = ret.had + 1
        /\ via[Len(messages)] = ret.tokenData.id

C6_Witness ==
    /\ ReplyFound /\ ret.saved
    /\ ret.tokenData.used_at # NullTime
    /\ ret.res = Redirected

\* C7: a reply with text fails with "Failed to send reply. Link has expired." for
\* a token that is found and expired, and with "Failed to send reply. Invalid link."
\* when no stored token matches the string; neither adds a message.
C7_ReplyRefused ==
    (ReplyReturned /\ ret.replyContent # <<>>) =>
        /\ (ret.tokenData.id # NoRow /\ ret.tokenData.expires_at < ret.at) =>
               (ret.res = ErrReplyExpired /\ messages = SubSeq(messages, 1, ret.had))
        /\ (\A i \in 1..Len(tokens) : tokens[i].token # ret.token) =>
               (ret.res = ErrReplyLink /\ messages = SubSeq(messages, 1, ret.had))

C7_Witness ==
    /\ ReplyFound /\ ret.tokenData.expires_at < ret.at
    /\ ret.res = ErrReplyExpired
    /\ Len(messages) = ret.had

\* The row of a message posted through token row t with the text content.
IsReplyThrough(m, t, content) ==
    /\ m.user_id = NoUser
    /\ m.is_external
    /\ m.sender_email = tokens[t].target_email
    /\ m.task_id = tokens[t].task_id
    /\ m.content = content

\* C8: the message a reply creates has user_id null, is_external true, the
\* target_email and task_id of the token used and the trimmed text; and every
\* external message in the store is such a row of some stored token.
C8_ReplyRows ==
    /\ (ReplyReturned /\ ret.res = Redirected) =>
           IsReplyThrough(messages[Len(messages)], ret.tokenData.id, Trim(ret.text))
    /\ \A i \in 1..Len(messages) :
           messages[i].is_external =>
               \E t \in 1..Len(tokens) :
                   /\ IsReplyThrough(messages[i], t, messages[i].content)
                   /\ messages[i].content = Trim(messages[i].content)
                   /\ messages[i].content # <<>>
    /\ \A i \in 1..Len(messages) : via[i] # NoRow => messages[i].is_external

C8_Witness ==
    /\ ReplyReturned /\ ret.res = Redirected
    /\ ret.text # Trim(ret.text)
    /\ \E i \in 1..Len(messages) : ~messages[i].is_external

\* C9: for every token, the thread holds at most one message posted through it.
C9_OneReplyPerToken ==
    \A t \in TokenIds : Cardinality({i \in 1..Len(via) : via[i] = t}) <= 1

\* C10: every reply with text for a token that is found and not expired, whose
\* insert the store takes, succeeds however many replies went before, and adds
\* exactly one external message to the thread of the token's task; a reply that
\* does not succeed adds none.
C10_RepeatedReplies ==
    ReplyFound =>
        LET thread == Cardinality(ExternalIn(ret.tokenData.task_id))
        IN  /\ (ret.at <= ret.tokenData.expires_at /\ ret.saved) =>
                   (ret.res = Redirected /\ thread = ret.prior + 1)
            /\ ret.res # Redirected => thread = ret.prior

C10_Witness ==
    /\ ReplyFound /\ ret.res = Redirected
    /\ ret.prior >= 1
    /\ Cardinality(ExternalIn(ret.tokenData.task_id)) = ret.prior + 1

C13_BoundRowsOnly ==
    [][ /\ ret'.op = "read" =>
               /\ messages' = messages
               /\ (ret'.tokenData.id # NoRow /\ ret'.res = Data) =>
                      /\ ret'.task = tokens[ret'.tokenData.id].task_id
                      /\ ret'.message = tokens[ret'.tokenData.id].message_id
                      /\ messages[ret'.message].task_id = ret'.task
        /\ ret'.op = "reply" =>
               /\ SubSeq(messages', 1, Len(messages)) = messages
               /\ Len(messages') <= Len(messages) + 1
               /\ Len(messages') = Len(messages) + 1 =>
                      /\ ret'.res = Redirected
                      /\ messages'[Len(messages')].task_id
                             = tokens[ret'.tokenData.id].task_id
        /\ ret'.op \in {"read", "reply"} =>
               /\ Len(tokens') = Len(tokens)
               /\ \A i \in 1..Len(tokens) :
                      [tokens'[i] EXCEPT !.used_at = NullTime]
                          = [tokens[i] EXCEPT !.used_at = NullTime] ]_vars

\* A reply went through a token whose task has another id than the token row.
C13_Witness ==
    /\ ReplyFound /\ ret.res = Redirected
    /\ ret.tokenData.task_id # ret.tokenData.id
    /\ messages[Len(messages)].task_id = ret.tokenData.task_id

(***************************************************************************)
(* Properties of the issuing path.  The chat texts are described here by   *)
(* their parts, not by the pattern of the code.                            *)
(***************************************************************************)
ChatReturned == ret.op = "chat"

\* The call that returned came from a signed-in user and its insert of the message,
\* if it got that far, reported no error.
ChatServed == ChatReturned /\ ret.user # NoUser /\ ret.res # ErrDatabase

Addresses == { <<"a", "@", "b", ".", "c", "o">>, <<"x", "@", "m", ".", "i", "o">> }
Leads     == { <<>>, <<" ">> }
Gaps      == { <<" ">>, <<" ", " ">>, <<" ", "\t">> }
Remainders ==
    { [raw |-> <<"h", "i">>, trimmed |-> <<"h", "i">>],
      [raw |-> <<"o", "k", "\n">>, trimmed |-> <<"o", "k">>] }
PlainTexts == { <<"h", "i">>, <<"a", "@", "b", " ", "h", "i">> }

\* C14: for a chat text <address><white space><remainder> with a remainder, the
\* call of a signed-in user stores a message whose content is the trimmed remainder
\* and, unless the insert of the token row fails, a token row whose target_email is
\* the address, bound to that message and its task.
C14_PrefixSplit ==
    \A l \in Leads, e \in Addresses, g \in Gaps, r \in Remainders :
        (ChatServed /\ ret.content = l \o e \o g \o r.raw) =>
            /\ ret.res = Success
            /\ ret.newMessage \in 1..Len(messages)
            /\ messages[ret.newMessage].content = r.trimmed
            /\ messages[ret.newMessage].task_id = ret.taskId
            /\ ret.issue # "none"
            /\ ret.issue # "tokenError" =>
                   /\ ret.persisted \in 1..Len(tokens)
                   /\ tokens[ret.persisted].target_email = e
                   /\ tokens[ret.persisted].message_id = ret.newMessage
                   /\ tokens[ret.persisted].task_id = ret.taskId

C14_Witness ==
    /\ ChatServed
    /\ ret.content = <<" ", "x", "@", "m", ".", "i", "o", " ", "\t", "o", "k", "\n">>
    /\ ret.persisted \in 1..Len(tokens)
    /\ tokens[ret.persisted].target_email = <<"x", "@", "m", ".", "i", "o">>
    /\ messages[ret.newMessage].content = <<"o", "k">>

\* C15: for a chat text that is empty or white space only, the call of a signed-in
\* user returns "Message content cannot be empty.", stores no message and no token
\* and calls no notification.
C15_EmptyRefused ==
    [][ (ret'.op = "chat" /\ ret'.user # NoUser /\ AllIn(ret'.content, WhiteSpace)) =>
            /\ ret'.res = ErrChatEmpty
            /\ messages' = messages
            /\ tokens' = tokens
            /\ outbox' = outbox ]_vars

C15_Witness ==
    /\ ChatReturned /\ ret.user # NoUser
    /\ ret.content = <<" ", " ", " ">>
    /\ ret.res = ErrChatEmpty
    /\ ret.newMessage = NoRow

\* C16: for a chat text that is an address followed by white space only, the call
\* of a signed-in user returns "Message content cannot be empty." and stores no
\* message and no token.
C16_AddressOnlyRefused ==
    \A e \in Addresses, g \in Gaps :
        (ChatServed /\ ret.content = e \o g) =>
            /\ ret.res = ErrChatEmpty
            /\ ret.newMessage = NoRow
            /\ ret.persisted = NoRow

\* C17: for a chat text without an address at its start, the call of a signed-in
\* user stores the message, leaves the token store as it is, returns no token and
\* calls no notification.
C17_PlainMessage ==
    [][ (ret'.op = "chat" /\ ret'.user # NoUser /\ ret'.res # ErrDatabase
            /\ ret'.content \in PlainTexts) =>
            /\ ret'.res = Success
            /\ ret'.publicToken = NoToken
            /\ tokens' = tokens
            /\ outbox' = outbox
            /\ Len(messages') = Len(messages) + 1
            /\ SubSeq(messages', 1, Len(messages)) = messages
            /\ ret'.newMessage = Len(messages')
            /\ messages'[Len(messages')].content = ret'.content
            /\ messages'[Len(messages')].sender_email = NullText
            /\ ~messages'[Len(messages')].is_external ]_vars

C17_Witness ==
    /\ ChatServed
    /\ ret.content = <<"a", "@", "b", " ", "h", "i">>
    /\ ret.res = Success
    /\ ret.publicToken = NoToken
    /\ messages[ret.newMessage].content = ret.content

\* C18: when the insert of the token row fails, the message stored before stays in
\* the thread, the call returns success with that message and without a token, and
\* sendTaskShareEmail is not called.
C18_TokenInsertFails ==
    [][ (ret'.op = "chat" /\ ret'.issue = "tokenError") =>
            /\ ret'.res = Success
            /\ messages' = messages
            /\ ret'.newMessage \in 1..Len(messages)
            /\ messages[ret'.newMessage].content = ret'.messageToSend
            /\ messages[ret'.newMessage].task_id = ret'.taskId
            /\ ret'.publicToken = NoToken
            /\ tokens' = tokens
            /\ outbox' = outbox ]_vars

C18_Witness ==
    /\ ChatReturned /\ ret.issue = "tokenError"
    /\ ret.res = Success
    /\ ret.publicToken = NoToken
    /\ ret.newMessage \in 1..Len(messages)

\* The calls of sendTaskShareEmail with the link of token row i.
NotifiedOf(i) ==
    {k \in 1..Len(outbox) : outbox[k].publicLink = PublicLink(tokens[i].token)}

\* C19: for every token row that was stored, sendTaskShareEmail was called once, to
\* the target_email of the row, with the link {baseUrl}/public/task/{token}.
C19_NotifiedOnce ==
    \A i \in 1..Len(tokens) :
        /\ Cardinality(NotifiedOf(i)) = 1
        /\ \A k \in NotifiedOf(i) : outbox[k].to = tokens[i].target_email

\* The transport failed for the mail of this token string.
Undelivered(tok) ==
    \E k \in 1..Len(outbox) : outbox[k].token = tok /\ ~outbox[k].delivered

\* C20: when the transport of the mail fails, the issuing call still returns success
\* with the message and the token, the token row stays in the store with used_at
\* null, and the first read of that token returns the data as for any fresh token.
C20_NotifierFailure ==
    /\ (ChatReturned /\ ret.issue = "sendFailed") =>
           /\ ret.res = Success
           /\ ret.newMessage \in 1..Len(messages)
           /\ ret.persisted \in 1..Len(tokens)
           /\ ret.publicToken = tokens[ret.persisted].token
           /\ tokens[ret.persisted].used_at = NullTime
    /\ \A k \in 1..Len(outbox) :
           \E i \in 1..Len(tokens) : tokens[i].token = outbox[k].token
    /\ (ReadFound /\ Undelivered(ret.token) /\ ret.clean /\ ~ret.before.dirty
           /\ ret.before.views = 0) => (ret.res = Data /\ ret.marked)

C20_Witness ==
    /\ ReadFound /\ Undelivered(ret.token)
    /\ ret.before.views = 0
    /\ ret.res = Data

(***************************************************************************)
(* Properties of the failure paths and of the frame of each request.       *)
(***************************************************************************)
\* C21: the read of a token that is found, unused and not expired, whose task is
\* gone, gets the response of a token string that was never issued (null).
C21_GenericDenial ==
    (ReadFound /\ ret.marked /\ ret.gotTask = NoRow) => ret.res = NotFound

\* The read that returned marked the row and then found the task or the message gone.
ReadLost == ReadFound /\ ret.marked /\ (ret.gotTask = NoRow \/ ret.gotMessage = NoRow)

\* The read that returned found the row marked, and no read has returned its data.
ReadAfterLoss == ReadFound /\ ret.tokenData.used_at # NullTime /\ ret.before.views = 0

\* C22 as claimed: a read that marked the row and found the task or the message
\* gone returns the not-found error of that row and leaves the token marked, and
\* every later read of the token returns "already used".
C22_LaterReadsUsed ==
    /\ ReadLost =>
           /\ ret.res = IF ret.gotTask = NoRow THEN ErrNoTask ELSE ErrNoMessage
           /\ tokens[ret.tokenData.id].used_at # NullTime
    /\ ReadAfterLoss => ret.res = ErrUsed

\* C22 amended: such a read returns the not-found error and leaves the token marked;
\* every later read of the token returns "already used" until the token expires and
\* "This link has expired." after that, and none returns the data.
C22_LaterReadsRefused ==
    /\ ReadLost =>
           /\ ret.res = IF ret.gotTask = NoRow THEN ErrNoTask ELSE ErrNoMessage
           /\ tokens[ret.tokenData.id].used_at # NullTime
           /\ readLog[ret.tokenData.id].views = ret.before.views
    /\ ReadAfterLoss =>
           /\ ret.res = IF ret.tokenData.expires_at < ret.at THEN ErrExpired ELSE ErrUsed
           /\ ~ret.marked
           /\ ret.task = NoRow /\ ret.message = NoRow
           /\ readLog[ret.tokenData.id].views = 0

C22_Witness ==
    /\ ReadAfterLoss
    /\ ret.at <= ret.tokenData.expires_at
    /\ ret.res = ErrUsed

\* C23: used_at of a token row is written at most once: once it is set, no step
\* changes its value.
C23_UsedAtWrittenOnce ==
    [][ \A i \in 1..Len(tokens) :
            tokens[i].used_at # NullTime =>
                (i <= Len(tokens') /\ tokens'[i].used_at = tokens[i].used_at) ]_vars

\* C24: a read that fails at the lookup, at the expiry check or at the used check
\* sends no update and no fetch and leaves both tables as they are.
C24_FailedReadNoEffect ==
    [][ (ret'.op = "read" /\ ret'.res \in {NotFound, ErrExpired, ErrUsed}) =>
            /\ tokens' = tokens
            /\ messages' = messages
            /\ ~ret'.marked
            /\ ret'.gotTask = NoRow /\ ret'.gotMessage = NoRow ]_vars

\* The read of an expired token that was never used left used_at null.
C24_Witness ==
    /\ ReadFound /\ ret.res = ErrExpired
    /\ ret.tokenData.used_at = NullTime
    /\ tokens[ret.tokenData.id].used_at = NullTime

\* A message was posted through token row i.
RepliedThrough(i) == \E k \in 1..Len(via) : via[k] = i

\* C25: no reply, refused or not, changes a token row, and the first read of a token
\* after a reply through it returns the data as the first read of a fresh token.
C25_ReplyLeavesTokens ==
    [][ /\ ret'.op = "reply" => tokens' = tokens
        /\ (ret'.op = "read" /\ ret'.tokenData.id # NoRow /\ ret'.clean
               /\ ~ret'.before.dirty /\ ret'.before.views = 0
               /\ RepliedThrough(ret'.tokenData.id)) => ret'.res = Data ]_vars

C25_Witness ==
    /\ ReadFound /\ ret.before.views = 0
    /\ RepliedThrough(ret.tokenData.id)
    /\ ret.res = Data

\* C26: when the insert of the reply reports an error, addPublicReply returns
\* "Failed to save reply. Please try again later." and not the redirect, and both
\* tables stay as they were.
C26_ReplySaveFails ==
    [][ (ret'.op = "reply" /\ ret'.replyContent # <<>> /\ ret'.tokenData.id # NoRow
            /\ ret'.at <= ret'.tokenData.expires_at /\ ~ret'.saved) =>
            /\ ret'.res = ErrReplySave
            /\ messages' = messages
            /\ tokens' = tokens ]_vars

C26_Witness ==
    /\ ReplyFound /\ ~ret.saved
    /\ ret.res = ErrReplySave
    /\ Len(messages) = ret.had

\* C27: when a token row is inserted, the store already holds the message with the
\* message_id of the row, in the task of the row, written by created_by_user_id,
\* not external, with the target_email of the row as sender_email.
C27_MessageBeforeToken ==
    [][ \A i \in (Len(tokens) + 1)..Len(tokens') :
            LET t == tokens'[i]
            IN  /\ t.message_id \in 1..Len(messages)
                /\ messages[t.message_id].id = t.message_id
                /\ messages[t.message_id].task_id = t.task_id
                /\ messages[t.message_id].user_id = t.created_by_user_id
                /\ messages[t.message_id].user_id # NoUser
                /\ ~messages[t.message_id].is_external
                /\ messages[t.message_id].sender_email = t.target_email ]_vars

\* A token was stored for a message that is not the first of the store.
C27_Witness ==
    /\ ChatReturned /\ ret.persisted \in 1..Len(tokens)
    /\ tokens[ret.persisted].message_id = ret.newMessage
    /\ ret.newMessage > 1
    /\ messages[ret.newMessage].sender_email = tokens[ret.persisted].target_email

\* C28: once a read or a reply with a token was refused for expiry, every read and
\* every reply with it that returns later is refused for expiry too.
C28_ExpiredIsTerminal ==
    /\ (ReadFound /\ ret.before.refused) => ret.res = ErrExpired
    /\ (ReplyFound /\ ret.before.refused) => ret.res = ErrReplyExpired

C28_Witness ==
    /\ ReadFound /\ ret.before.refused
    /\ ret.tokenData.used_at # NullTime
    /\ ret.res = ErrExpired

\* C29 as claimed: the call returns a publicToken exactly when it stored a token row
\* with that string.
C29_ReturnedIffPersisted ==
    ChatReturned =>
        /\ (ret.publicToken # NoToken) <=> (ret.persisted # NoRow)
        /\ ret.persisted # NoRow =>
               (ret.persisted \in 1..Len(tokens)
                   /\ tokens[ret.persisted].token = ret.publicToken)

\* C29 amended: a publicToken that is returned is the string of a token row the call
\* stored; the stored token is returned when the task name is not found and when
\* the transport of the mail fails, and is not returned when a call after the insert
\* throws.
C29_ReturnedOnlyIfPersisted ==
    ChatReturned =>
        /\ ret.publicToken # NoToken =>
               (ret.persisted \in 1..Len(tokens)
                   /\ tokens[ret.persisted].token = ret.publicToken)
        /\ ret.issue \in {"taskError", "sent", "sendFailed"} =>
               (ret.persisted \in 1..Len(tokens)
                   /\ ret.publicToken = tokens[ret.persisted].token)
        /\ ret.issue = "throw" => ret.publicToken = NoToken
        /\ ret.issue \in {"tokenError", "none"} =>
               (ret.publicToken = NoToken /\ ret.persisted = NoRow)

C29_Witness ==
    /\ ChatReturned /\ ret.issue = "taskError"
    /\ ret.persisted \in 1..Len(tokens)
    /\ ret.publicToken = tokens[ret.persisted].token

\* C30: a call without a signed-in user, and a call whose insert of the message
\* reports an error, returns an error, stores no message and no token and calls no
\* notification, also for a text that starts with an address.
C30_RefusedChatNoEffect ==
    [][ (ret'.op = "chat" /\ (ret'.user = NoUser \/ ~ret'.msgOk)) =>
            /\ ret'.res = IF ret'.user = NoUser THEN ErrAuth ELSE ErrDatabase
            /\ ret'.newMessage = NoRow
            /\ ret'.publicToken = NoToken
            /\ messages' = messages
            /\ tokens' = tokens
            /\ outbox' = outbox ]_vars

C30_Witness ==
    /\ ChatReturned /\ ~ret.msgOk
    /\ ret.targetEmail # NullText
    /\ ret.res = ErrDatabase
    /\ ret.newMessage = NoRow

=============================================================================
